---- MODULE Spec2Model ----
(***************************************************************************)
(* A model of the dispatch engine of package ecs (src/ecs.go): the world's *)
(* object collection and its lock, the per-system schedule (System.run),   *)
(* the dispatch sweep (System.tick) with parameter resolution, invocation, *)
(* error routing and write-back, and World.RunContext.                     *)
(*                                                                         *)
(* A Go slice is a header (array, len) over a backing array; the model     *)
(* keeps the backing arrays in `arrays` so that the aliasing between the   *)
(* header a range loop captured and the header RemoveObject rewrites is    *)
(* the aliasing the program has.                                           *)
(***************************************************************************)
EXTENDS Integers, Sequences, FiniteSets, TLC

\* ------------------------------------------------------------------ bounds
MaxObjs == 3        \* objects added to the world before the run
MaxTicks == 3       \* timestamps a closing trigger source delivers
IntBits == 4        \* width of the modelled Go int (two's complement)
ConcObjs == 2       \* objects of a world run with two systems
ConcTicks == 1      \* timestamps of a closing source in such a world

\* ------------------------------------------------------------------ values
\* A reflect.Value / interface{} value: its dynamic type and its payload.
Val(t, v) == [type |-> t, val |-> v]

\* reflect.Value{}: the zero Value argValues is filled with by make().
Invalid == Val("invalid", 0)

\* Go's int arithmetic wraps in two's complement.
WrapInt(x) == ((x + 2^(IntBits - 1)) % 2^IntBits) - 2^(IntBits - 1)

Position(n) == Val("Position", n)
Velocity(n) == Val("Velocity", n)
Marked == Val("Marked", 0)

\* error values: nil, and the test's cannotMove.
NilError == Val("error", 0)
cannotMove == Val("error", 1)

\* reflect.Type.AssignableTo between the concrete named types of the model:
\* distinct named types are never assignable to one another.
AssignableTo(from, to) == from = to

\* The component bags the objects of a world are built from.
ObjectTemplates ==
    { <<Position(1), Velocity(2)>>,
      <<Marked>>,
      <<Position(1)>>,
      <<Position(1), Velocity(2), Position(5)>> }

\* ------------------------------------------------------------- the systems
\* The system functions: movement (TestMovement), movementErr (TestError's
\* function, which always fails), movementNil (the documented signature
\* (Position, Velocity) -> (Position, error), succeeding), selfDestruct
\* (TestSelfDestruct), saveTime (TestTime), and velocityOf, a function whose
\* result type is none of its parameters' types.
Funcs == {"movement", "movementErr", "movementNil", "selfDestruct",
          "saveTime", "velocityOf"}

\* The function types a system declares for a query-iterator parameter, by
\* their Go spelling, with their inputs and outputs: TestMoveTowardsTarget's,
\* TestQueryAll's, and one type for each way of departing from the shape
\* makeObjectIter is documented to accept.
FuncTypes ==
    [t \in {"func() (Target, Position, bool)",
            "func(int) (int, Entity, Target, bool)",
            "func(string) (Target, bool)",
            "func(int, int) (Target, bool)",
            "func() bool",
            "func(int) (int, Target)"} |->
        CASE t = "func() (Target, Position, bool)" ->
                [In |-> <<>>, Out |-> <<"Target", "Position", "bool">>]
          [] t = "func(int) (int, Entity, Target, bool)" ->
                [In |-> <<"int">>, Out |-> <<"int", "Entity", "Target", "bool">>]
          [] t = "func(string) (Target, bool)" ->
                [In |-> <<"string">>, Out |-> <<"Target", "bool">>]
          [] t = "func(int, int) (Target, bool)" ->
                [In |-> <<"int", "int">>, Out |-> <<"Target", "bool">>]
          [] t = "func() bool" ->
                [In |-> <<>>, Out |-> <<"bool">>]
          [] t = "func(int) (int, Target)" ->
                [In |-> <<"int">>, Out |-> <<"int", "Target">>]]

\* t.Kind() == reflect.Func.
KindFunc(t) == t \in DOMAIN FuncTypes

\* The system functions with a query-iterator parameter: moveTowards
\* (TestMoveTowardsTarget's movement), findTargets (TestQueryAll), and one
\* function per remaining type of FuncTypes, which calls its iterator once.
QueryFuncs == {"moveTowards", "findTargets", "byName", "twoOffsets",
               "oneOutput", "noFound"}

\* A system function that is handed the world, its entity and a query
\* iterator and calls AddObject, GetObject, RemoveObject and the iterator, any
\* of them, in any order.
WorkerFuncs == {"worker"}

\* A system function that adds one object to the world each time it is
\* invoked; the object it adds matches its own parameters.
SpawnFuncs == {"spawner"}

\* f.Type().In(i): the declared parameter types.
FuncIn(f) ==
    CASE f = "moveTowards"  ->
            <<"Player", "Position", "func() (Target, Position, bool)">>
      [] f = "findTargets"  ->
            <<"Player", "func(int) (int, Entity, Target, bool)">>
      [] f = "byName"       -> <<"Player", "func(string) (Target, bool)">>
      [] f = "twoOffsets"   -> <<"Player", "func(int, int) (Target, bool)">>
      [] f = "oneOutput"    -> <<"Player", "func() bool">>
      [] f = "noFound"      -> <<"Player", "func(int) (int, Target)">>
      [] f = "worker"       ->
            <<"World", "Entity", "func() (Target, Position, bool)">>
      [] f = "spawner"      -> <<"World", "Marked">>
      [] f = "movement"     -> <<"Position", "Velocity">>
      [] f = "movementErr"  -> <<"Position", "Velocity">>
      [] f = "movementNil"  -> <<"Position", "Velocity">>
      [] f = "selfDestruct" -> <<"World", "Entity", "Marked">>
      [] f = "saveTime"     -> <<"Time">>
      [] f = "velocityOf"   -> <<"Position">>

\* runtime.FuncForPC(f.Pointer()).Name(), as its dot-separated pieces: the
\* test closures are func1, func2, ... of their test function; movementNil
\* and velocityOf are declared at package level.
FuncSymbol(f) ==
    LET pkg == <<"github", "com/dradtke/ecs-go_test">> IN
    CASE f = "moveTowards"  -> pkg \o <<"TestMoveTowardsTarget", "func1">>
      [] f = "findTargets"  -> pkg \o <<"TestQueryAll", "func1">>
      [] f \in {"byName", "twoOffsets", "oneOutput", "noFound", "worker",
                "spawner"} ->
            pkg \o <<f>>
      [] f = "movement"     -> pkg \o <<"TestMovement", "func1">>
      [] f = "movementErr"  -> pkg \o <<"TestError", "func1">>
      [] f = "movementNil"  -> pkg \o <<"movementNil">>
      [] f = "selfDestruct" -> pkg \o <<"TestSelfDestruct", "func1">>
      [] f = "saveTime"     -> pkg \o <<"TestTime", "func2">>
      [] f = "velocityOf"   -> pkg \o <<"velocityOf">>

\* The function's own name: what follows the last dot of its symbol.
FuncName(f) == FuncSymbol(f)[Len(FuncSymbol(f))]

\* Whether the function body calls world.RemoveObject(entity).
FuncCallsRemoveObject(f) == f = "selfDestruct"

\* Whether the function body calls the query iterator it was handed.
FuncCallsIter(f) == \E i \in 1..Len(FuncIn(f)) : KindFunc(FuncIn(f)[i])

\* Whether the function body calls world.AddObject(ecs.NewObject(Marked{})).
FuncCallsAddObject(f) == f \in SpawnFuncs

\* Whether the function's last result is an error.
ReturnsError(f) == f \in {"movementErr", "movementNil"}

\* The values a call returns, in declaration order.
FuncCall(f, args) ==
    CASE f = "movement" ->
            <<Position(WrapInt(args[1].val + args[2].val))>>
      [] f = "movementErr" ->
            <<Position(0), cannotMove>>
      [] f = "movementNil" ->
            <<Position(WrapInt(args[1].val + args[2].val)), NilError>>
      [] f = "selfDestruct" -> <<>>
      [] f = "saveTime" -> <<>>
      [] f = "velocityOf" -> <<Velocity(args[1].val)>>

\* ----------------------------------------------------------------- slices
\* append(slice, e): in place when the capacity allows, else into a new
\* backing array of doubled capacity (1 from 0).  Slots past len hold nil (0).
GrowCap(cap) == IF cap = 0 THEN 1 ELSE 2 * cap

AppendSlice(arrs, hdr, e) ==
    LET old == arrs[hdr.arr] IN
    IF hdr.len < Len(old)
    THEN [arrays |-> [arrs EXCEPT ![hdr.arr][hdr.len + 1] = e],
          hdr |-> [hdr EXCEPT !.len = hdr.len + 1]]
    ELSE LET grown == [i \in 1..GrowCap(Len(old)) |->
                          IF i <= hdr.len THEN old[i]
                          ELSE IF i = hdr.len + 1 THEN e ELSE 0]
         IN [arrays |-> Append(arrs, grown),
             hdr |-> [arr |-> Len(arrs) + 1, len |-> hdr.len + 1]]

\* The elements a slice header denotes.
SliceElems(arrs, hdr) == SubSeq(arrs[hdr.arr], 1, hdr.len)

\* World.AddObject's effect on the collection (the lock aside).
AddObjectTo(arrs, hdr, e) == AppendSlice(arrs, hdr, e)

\* NewWorld() followed by one NewObject/AddObject per bag: entity n is the
\* n-th object created (gid counts from 1).
RECURSIVE SetupWorld(_)
SetupWorld(n) ==
    IF n = 0
    THEN [arrays |-> << <<>> >>, hdr |-> [arr |-> 1, len |-> 0]]
    ELSE LET w == SetupWorld(n - 1) IN AddObjectTo(w.arrays, w.hdr, n)

\* The first index in lo..hi whose flag is set, or 0: the shape of every
\* first-match scan of the package.
RECURSIVE FirstFrom(_, _, _)
FirstFrom(flags, lo, hi) ==
    IF lo > hi THEN 0
    ELSE IF flags[lo] THEN lo
    ELSE FirstFrom(flags, lo + 1, hi)

\* World.RemoveObject's search: the first position of the collection holding
\* the entity, or 0.
FindObject(arrs, hdr, entity) ==
    FirstFrom([i \in 1..hdr.len |-> arrs[hdr.arr][i] = entity], 1, hdr.len)

\* World.GetObject: the first object of the collection with the entity (an
\* object is named by its entity), or 0 for nil.
GetObject(arrs, hdr, entity) ==
    LET i == FindObject(arrs, hdr, entity) IN
    IF i = 0 THEN 0 ELSE arrs[hdr.arr][i]

\* ------------------------------------------------------------- dispatching
\* (mutant) the last component assignable to t.
FirstAssignableLast(comps, t) ==
    LET n == Len(comps)
        r == FirstFrom([i \in 1..n |->
                          AssignableTo(comps[n + 1 - i].type, t)], 1, n)
    IN IF r = 0 THEN 0 ELSE n + 1 - r

\* The scan of ob.components for the first component assignable to t
\* (tick's innermost loop): its index, or 0.
FirstAssignable(comps, t) ==
    FirstFrom([i \in 1..Len(comps) |-> AssignableTo(comps[i].type, t)],
              1, Len(comps))

\* (mutant) a time-typed parameter gets the clock's reading, not the
\* timestamp the sweep was given.
ResolveArgClock(t, entity, comps, nowv) ==
    CASE t = "World"  -> Val("World", 0)
      [] t = "Entity" -> Val("Entity", entity)
      [] t = "Time"   -> Val("Time", 0)
      [] OTHER ->
            LET i == FirstAssignable(comps, t) IN
            IF i = 0 THEN Invalid ELSE comps[i]

\* World.makeObjectIter up to its return: the error for a type with more
\* than one input, with fewer than two outputs or with a last output that is
\* not a bool, else the function value built for t (it closes over the
\* world).  The kind of a single input is not looked at here.
makeObjectIter(t) ==
    LET ft == FuncTypes[t] IN
    IF Len(ft.In) > 1
    THEN [value |-> Invalid, err |-> "at most one argument expected"]
    ELSE IF Len(ft.Out) < 2
    THEN [value |-> Invalid, err |-> "at least two return values expected"]
    ELSE IF ft.Out[Len(ft.Out)] # "bool"
    THEN [value |-> Invalid, err |-> "last return value must be a boolean"]
    ELSE [value |-> Val(t, 0), err |-> ""]

\* One parameter's resolution: the injected special value, the iterator
\* built for a function type, the first assignable component, or Invalid
\* when the iterator cannot be built or the object has no such component.
ResolveArg(t, entity, comps, nowv) ==
    CASE t = "World"  -> Val("World", 0)
      [] t = "Entity" -> Val("Entity", entity)
      [] t = "Time"   -> Val("Time", nowv)
      [] KindFunc(t)  -> makeObjectIter(t).value
      [] OTHER ->
            LET i == FirstAssignable(comps, t) IN
            IF i = 0 THEN Invalid ELSE comps[i]

\* (mutant) a parameter the object cannot satisfy is passed over (continue tl
\* for continue ol): its slot keeps what an earlier object left there.
RECURSIVE ResolveArgsPartial(_, _, _, _, _, _)
ResolveArgsPartial(types, i, args, entity, comps, nowv) ==
    IF i > Len(types) THEN [ok |-> TRUE, args |-> args]
    ELSE LET v == ResolveArg(types[i], entity, comps, nowv) IN
         ResolveArgsPartial(types, i + 1,
                            IF v = Invalid THEN args ELSE [args EXCEPT ![i] = v],
                            entity, comps, nowv)

\* tick's loop tl over argTypes from parameter i on: argValues is shared by
\* all objects of the sweep and is overwritten slot by slot; resolution stops
\* at the first parameter the object cannot satisfy (continue ol).
RECURSIVE ResolveArgs(_, _, _, _, _, _)
ResolveArgs(types, i, args, entity, comps, nowv) ==
    IF i > Len(types) THEN [ok |-> TRUE, args |-> args]
    ELSE LET v == ResolveArg(types[i], entity, comps, nowv) IN
         IF v = Invalid THEN [ok |-> FALSE, args |-> args]
         ELSE ResolveArgs(types, i + 1, [args EXCEPT ![i] = v],
                          entity, comps, nowv)

\* The trailing error of a call's results, or NilError when it has none.
TrailingError(results) ==
    IF Len(results) > 0 /\ results[Len(results)].type = "error"
    THEN results[Len(results)]
    ELSE NilError

\* (mutant) no result is written back when the trailing error is non-nil.
DataResultsUnlessError(results) ==
    IF Len(results) > 0 /\ results[Len(results)].type = "error"
    THEN IF results[Len(results)] # NilError
         THEN <<>>
         ELSE SubSeq(results, 1, Len(results) - 1)
    ELSE results

\* The results left for write-back once a trailing error value is cut off.
DataResults(results) ==
    IF Len(results) > 0 /\ results[Len(results)].type = "error"
    THEN SubSeq(results, 1, Len(results) - 1)
    ELSE results

\* (mutant) the last accepting component instead of the first.
WriteSlotLast(comps, result) ==
    LET n == Len(comps)
        r == FirstFrom([i \in 1..n |->
                          AssignableTo(result.type, comps[n + 1 - i].type)], 1, n)
    IN IF r = 0 THEN 0 ELSE n + 1 - r

\* The slot a result is written to: the first component whose type the
\* result's type is assignable to, or 0.
WriteSlot(comps, result) ==
    FirstFrom([i \in 1..Len(comps) |-> AssignableTo(result.type, comps[i].type)],
              1, Len(comps))

\* tick's loop rl: each result in order overwrites its slot, or is dropped.
RECURSIVE WriteBack(_, _)
WriteBack(comps, results) ==
    IF results = <<>> THEN comps
    ELSE LET i == WriteSlot(comps, Head(results)) IN
         WriteBack(IF i = 0 THEN comps ELSE [comps EXCEPT ![i] = Head(results)],
                   Tail(results))

\* The name handed to the error handler: s.Name, or the function's own name.
SystemName(sys) == IF sys.Name # "" THEN sys.Name ELSE FuncName(sys.Func)

\* ------------------------------------------------------------------- state
VARIABLES
    systems,     \* w.systems: the registered System values
    onError,     \* whether w.OnError is set
    components,  \* ob.components of the object of each entity
    arrays,      \* the backing arrays of w.objects, by allocation order
    objects,     \* the slice header of w.objects: [arr, len]
    objectsMu,   \* the RWMutex: [writer, readers]
    chan,        \* per system, the timestamps its trigger source still holds
    cancelled,   \* whether ctx.Done() is closed
    runPc,       \* RunContext: "idle", "wait" (in wg.Wait), "returned"
    wg,          \* the WaitGroup counter
    proc,        \* per system, its goroutine: position and locals of run/tick
    obs,         \* per system, what it was observed to do
    errCalls,    \* the calls of w.OnError, in order
    gid,         \* the package's entity counter
    api          \* a client calling the package directly: its calls' outcome

vars == <<systems, onError, components, arrays, objects, objectsMu, chan,
          cancelled, runPc, wg, proc, obs, errCalls, gid, api>>

Sys == DOMAIN systems

\* The timestamp time.Now() gives a one-shot system.
ClockTimes == {0}

\* A System value and its trigger source: Ticker is "nil" (one-shot),
\* "closing" (a source that delivers the timestamps 1..N and is then closed,
\* as MaxTicker and TestTime's ticker are) or "forever" (a source that never
\* runs dry, as time.NewTicker's is; its timestamps are not told apart).
SystemValues(funcs, nTicks) ==
    [Func : funcs, Name : {""}, Ticker : {"nil"}, N : {0}]
    \cup [Func : funcs \cap {"movementErr"}, Name : {"movement"},
          Ticker : {"nil"}, N : {0}]
    \cup [Func : funcs, Name : {""}, Ticker : {"closing"}, N : 0..nTicks]

ForeverValues(funcs) ==
    [Func : funcs, Name : {""}, Ticker : {"forever"}, N : {1}]

\* The timestamps a system's trigger source holds before the run.
Source(sys) == [i \in 1..sys.N |-> i]

\* A goroutine before RunContext starts it.
IdleProc ==
    [pc |-> "idle", now |-> 0, rng |-> [arr |-> 1, len |-> 0], idx |-> 0,
     ob |-> 0, argValues |-> <<>>, results |-> <<>>, found |-> 0, j |-> 0,
     ret |-> "none"]

\* sweeps: the timestamp of each sweep started (of a system whose source is
\* not a never-ending one); atStart: the collection when
\* the current sweep started; visited: the invocations of the current sweep
\* so far, each the object and the argument values of f.Call.
NoObs == [sweeps |-> <<>>, atStart |-> <<>>, visited |-> <<>>]

\* A client that has called nothing yet.
NoCalls == [pc |-> "ready"]

\* The states a program can be in when RunContext is called: a world built by
\* NewWorld, NewObject/AddObject for nObjs objects and AddSystem for the
\* systems of sysSeqs.  The handler matters only to a system that can fail.
Setup(sysSeqs, nObjs) ==
    /\ systems \in sysSeqs
    /\ onError \in BOOLEAN
    /\ (\A s \in Sys : ~ReturnsError(systems[s].Func)) => onError
    /\ \E n \in 0..nObjs :
         /\ components \in [1..n -> ObjectTemplates]
         /\ gid = n
         /\ arrays = SetupWorld(n).arrays
         /\ objects = SetupWorld(n).hdr
    /\ objectsMu = [writer |-> 0, readers |-> {}]
    /\ chan = [s \in Sys |-> Source(systems[s])]
    /\ cancelled = FALSE
    /\ runPc = "idle"
    /\ wg = 0
    /\ proc = [s \in Sys |-> IdleProc]
    /\ obs = [s \in Sys |-> NoObs]
    /\ errCalls = <<>>
    /\ api = NoCalls

\* A world with at most one system, one-shot or with a closing source.
Init == Setup({<<>>} \cup {<<sys>> : sys \in SystemValues(Funcs, MaxTicks)},
              MaxObjs)

\* The functions of the systems that are run two at a time: one that writes
\* components and one that removes objects.
ConcFuncs == {"movement", "selfDestruct"}

\* A world with no system, or with two systems, each one-shot, with a closing
\* source or with a never-ending one; the second removes objects.
ConcInit ==
    Setup({<<>>} \cup {<<a, b>> :
              a \in SystemValues(ConcFuncs, ConcTicks) \cup ForeverValues(ConcFuncs),
              b \in SystemValues({"selfDestruct"}, ConcTicks)
                       \cup ForeverValues({"selfDestruct"})},
          ConcObjs)

\* ------------------------------------------------------------ cancellation
\* The caller's context is cancelled (at any time, also before the run).
Cancel ==
    /\ ~cancelled
    /\ cancelled' = TRUE
    /\ UNCHANGED <<gid, api, systems, onError, components, arrays, objects, objectsMu,
                   chan, runPc, wg, proc, obs, errCalls>>

\* ------------------------------------------------------------- RunContext
\* wg.Add(len(w.systems)) and one goroutine per system.
RunContext ==
    /\ runPc = "idle"
    /\ runPc' = "wait"
    /\ wg' = Len(systems)
    /\ proc' = [s \in Sys |-> [proc[s] EXCEPT !.pc = "run"]]
    /\ UNCHANGED <<gid, api, systems, onError, components, arrays, objects, objectsMu,
                   chan, cancelled, obs, errCalls>>

\* (mutant) RunContext does not wait for the goroutines it started.
WaitReturnsAtOnce == TRUE

\* wg.Wait() returns once the counter is zero.
WaitReturns == wg = 0

RunReturn ==
    /\ runPc = "wait"
    /\ WaitReturns
    /\ runPc' = "returned"
    /\ UNCHANGED <<gid, api, systems, onError, components, arrays, objects, objectsMu,
                   chan, cancelled, wg, proc, obs, errCalls>>

\* wg.Done() after s.run returned.
WgDone(s) ==
    /\ proc[s].pc = "exit"
    /\ proc' = [proc EXCEPT ![s].pc = "done"]
    /\ wg' = wg - 1
    /\ UNCHANGED <<gid, api, systems, onError, components, arrays, objects, objectsMu,
                   chan, cancelled, runPc, obs, errCalls>>

\* ------------------------------------------------------------- System.tick
\* The head of tick: argValues is allocated, and the range statement reads
\* the header of w.objects once, with no lock held.
StartTick(s, nowv) ==
    /\ proc' = [proc EXCEPT ![s] =
                  [@ EXCEPT !.pc = "loop", !.now = nowv, !.rng = objects,
                            !.idx = 0,
                            !.argValues =
                               [i \in 1..Len(FuncIn(systems[s].Func)) |-> Invalid]]]
    /\ obs' = [obs EXCEPT ![s] =
                  [sweeps |-> IF systems[s].Ticker = "forever" THEN @.sweeps
                              ELSE Append(@.sweeps, nowv),
                   atStart |-> SliceElems(arrays, objects),
                   visited |-> <<>>]]

\* (mutant) the loop reads the header of w.objects anew at each pass.
RangeExprLive(captured, current) == current

\* The slice loop ol ranges over: the range expression w.objects is evaluated
\* once, before the first pass, so it is the header captured then and not the
\* current one.
RangeExpr(captured, current) == captured

\* One pass of loop ol up to f.Call: the object is read from the captured
\* header's backing array, and either every parameter resolves (the call is
\* next) or the object is skipped.
TickNext(s) ==
    /\ proc[s].pc = "loop"
    /\ proc[s].idx < RangeExpr(proc[s].rng, objects).len
    /\ LET p == proc[s]
           ob == arrays[RangeExpr(p.rng, objects).arr][p.idx + 1]
           r == ResolveArgs(FuncIn(systems[s].Func), 1, p.argValues, ob,
                            components[ob], p.now)
       IN IF r.ok
          THEN /\ proc' = [proc EXCEPT ![s] =
                             [@ EXCEPT !.pc = "call", !.ob = ob,
                                       !.argValues = r.args]]
               /\ obs' = [obs EXCEPT ![s].visited =
                                      Append(@, [ob |-> ob, args |-> r.args])]
          ELSE /\ proc' = [proc EXCEPT ![s] =
                             [@ EXCEPT !.ob = ob, !.argValues = r.args,
                                       !.idx = @ + 1]]
               /\ obs' = obs
    /\ UNCHANGED <<gid, api, systems, onError, components, arrays, objects, objectsMu,
                   chan, cancelled, runPc, wg, errCalls>>

\* f.Call of a function that does not touch the world.
Call(s) ==
    /\ proc[s].pc = "call"
    /\ ~FuncCallsRemoveObject(systems[s].Func)
    /\ ~FuncCallsIter(systems[s].Func)
    /\ ~FuncCallsAddObject(systems[s].Func)
    /\ proc' = [proc EXCEPT ![s] =
                  [@ EXCEPT !.pc = "results",
                            !.results = FuncCall(systems[s].Func,
                                                 proc[s].argValues)]]
    /\ UNCHANGED <<gid, api, systems, onError, components, arrays, objects, objectsMu,
                   chan, cancelled, runPc, wg, obs, errCalls>>

\* w.objectsMu.Lock(): no writer and no reader holds the lock.
CanLock == objectsMu.writer = 0 /\ objectsMu.readers = {}

\* f.Call of selfDestruct, up to RemoveObject's Lock and its search.
RemoveObjectLock(s) ==
    /\ proc[s].pc = "call"
    /\ FuncCallsRemoveObject(systems[s].Func)
    /\ CanLock
    /\ objectsMu' = [objectsMu EXCEPT !.writer = s]
    /\ LET i == FindObject(arrays, objects, proc[s].argValues[2].val) IN
       proc' = [proc EXCEPT ![s] = [@ EXCEPT !.pc = "crit", !.found = i, !.j = i]]
    /\ UNCHANGED <<gid, api, systems, onError, components, arrays, objects, chan,
                   cancelled, runPc, wg, obs, errCalls>>

\* append(w.objects[:i], w.objects[i+1:]...) moves the tail one slot down
\* inside the same backing array, a slot at a time.
RemoveObjectShift(s) ==
    /\ proc[s].pc = "crit"
    /\ proc[s].found # 0
    /\ proc[s].j < objects.len
    /\ arrays' = [arrays EXCEPT ![objects.arr][proc[s].j] =
                                   arrays[objects.arr][proc[s].j + 1]]
    /\ proc' = [proc EXCEPT ![s].j = @ + 1]
    /\ UNCHANGED <<gid, api, systems, onError, components, objects, objectsMu, chan,
                   cancelled, runPc, wg, obs, errCalls>>

\* The header store of the shortened slice, the deferred Unlock, and the
\* return of selfDestruct.
RemoveObjectUnlock(s) ==
    /\ proc[s].pc = "crit"
    /\ proc[s].found = 0 \/ proc[s].j = objects.len
    /\ objects' = IF proc[s].found # 0
                  THEN [objects EXCEPT !.len = @ - 1]
                  ELSE objects
    /\ objectsMu' = [objectsMu EXCEPT !.writer = 0]
    /\ proc' = [proc EXCEPT ![s] =
                  [@ EXCEPT !.pc = "results",
                            !.results = FuncCall(systems[s].Func,
                                                 proc[s].argValues)]]
    /\ UNCHANGED <<gid, api, systems, onError, components, arrays, chan, cancelled,
                   runPc, wg, obs, errCalls>>

\* World.handleSystemError: the handler's calls after this one.
handleSystemError(calls, name, args, err) ==
    IF onError
    THEN Append(calls, [name |-> name, args |-> args, err |-> err])
    ELSE calls

\* (mutant) the handler is called for a nil error too.
RouteErrorAlways(calls, sys, args, results) ==
    IF Len(results) > 0 /\ results[Len(results)].type = "error"
    THEN handleSystemError(calls, SystemName(sys), args, TrailingError(results))
    ELSE calls

\* The error handler's calls after the results of one invocation.
RouteError(calls, sys, args, results) ==
    IF TrailingError(results) # NilError
    THEN handleSystemError(calls, SystemName(sys), args, TrailingError(results))
    ELSE calls

\* (mutant) a non-nil trailing error ends the sweep.
NextIndexUnlessError(idx, len, results) ==
    IF TrailingError(results) # NilError THEN len ELSE idx + 1

\* Where loop ol goes on after an invocation: to the next element of the
\* range, whatever the results were (tick has no break and no return).
NextIndex(idx, len, results) == idx + 1

\* The rest of a pass of loop ol after f.Call: a non-nil trailing error goes
\* to the handler, the remaining results are written back.
TickResults(s) ==
    /\ proc[s].pc = "results"
    /\ errCalls' = RouteError(errCalls, systems[s], proc[s].argValues,
                              proc[s].results)
    /\ components' = [components EXCEPT ![proc[s].ob] =
                         WriteBack(@, DataResults(proc[s].results))]
    /\ proc' = [proc EXCEPT ![s] =
                  [@ EXCEPT !.pc = "loop",
                            !.idx = NextIndex(proc[s].idx, proc[s].rng.len,
                                              proc[s].results)]]
    /\ UNCHANGED <<gid, api, systems, onError, arrays, objects, objectsMu, chan,
                   cancelled, runPc, wg, obs>>

\* (mutant) run goes back for another tick also when s.Ticker is nil.
AfterTickLoops(sys) == "run"

\* Where run goes once tick has returned: to `return nil` for a one-shot
\* system, back to the select for a periodic one.
AfterTick(sys) == IF sys.Ticker = "nil" THEN "exit" ELSE "run"

\* The range loop has gone through the len elements it captured: tick
\* returns to run.
TickEnd(s) ==
    /\ proc[s].pc = "loop"
    /\ proc[s].idx >= RangeExpr(proc[s].rng, objects).len
    /\ proc' = [proc EXCEPT ![s] =
                  IF AfterTick(systems[s]) = "exit"
                  THEN [@ EXCEPT !.pc = "exit", !.ret = "nil"]
                  ELSE [@ EXCEPT !.pc = "run"]]
    /\ UNCHANGED <<gid, api, systems, onError, components, arrays, objects, objectsMu,
                   chan, cancelled, runPc, wg, obs, errCalls>>

\* -------------------------------------------------------------- System.run
\* s.Ticker == nil: one tick at time.Now().
RunOnce(s) ==
    /\ proc[s].pc = "run"
    /\ systems[s].Ticker = "nil"
    /\ \E nowv \in ClockTimes : StartTick(s, nowv)
    /\ UNCHANGED <<gid, api, systems, onError, components, arrays, objects, objectsMu,
                   chan, cancelled, runPc, wg, errCalls>>

\* select, case now, ok := <-s.Ticker with ok: a timestamp is received.
SelectTick(s) ==
    /\ proc[s].pc = "run"
    /\ systems[s].Ticker # "nil"
    /\ chan[s] # <<>>
    /\ chan' = [chan EXCEPT ![s] =
                  IF systems[s].Ticker = "forever"
                  THEN Append(Tail(@), Head(@))
                  ELSE Tail(@)]
    /\ StartTick(s, Head(chan[s]))
    /\ UNCHANGED <<gid, api, systems, onError, components, arrays, objects, objectsMu,
                   cancelled, runPc, wg, errCalls>>

\* (mutant) run never sees its source closed.
SourceClosedNever(sys, ch) == FALSE

\* The receive from s.Ticker gives !ok: the source was closed and holds no
\* timestamp any more.
SourceClosed(sys, ch) == sys.Ticker = "closing" /\ ch = <<>>

\* select, case now, ok := <-s.Ticker with !ok: the source is closed.
SelectClosed(s) ==
    /\ proc[s].pc = "run"
    /\ SourceClosed(systems[s], chan[s])
    /\ proc' = [proc EXCEPT ![s] = [@ EXCEPT !.pc = "exit", !.ret = "nil"]]
    /\ UNCHANGED <<gid, api, systems, onError, components, arrays, objects, objectsMu,
                   chan, cancelled, runPc, wg, obs, errCalls>>

\* (mutant) run's select has no ctx.Done() case.
CtxDoneNever == FALSE

\* <-ctx.Done() is ready once the context is cancelled.
CtxDone == cancelled

\* select, case <-ctx.Done(): run returns ctx.Err().
SelectDone(s) ==
    /\ proc[s].pc = "run"
    /\ systems[s].Ticker # "nil"
    /\ CtxDone
    /\ proc' = [proc EXCEPT ![s] = [@ EXCEPT !.pc = "exit", !.ret = "ctxErr"]]
    /\ UNCHANGED <<gid, api, systems, onError, components, arrays, objects, objectsMu,
                   chan, cancelled, runPc, wg, obs, errCalls>>

\* ------------------------------------------------------------ specification
Next ==
    \/ Cancel
    \/ RunContext
    \/ RunReturn
    \/ \E s \in Sys : RunOnce(s)
    \/ \E s \in Sys : SelectTick(s)
    \/ \E s \in Sys : SelectClosed(s)
    \/ \E s \in Sys : SelectDone(s)
    \/ \E s \in Sys : TickNext(s)
    \/ \E s \in Sys : Call(s)
    \/ \E s \in Sys : RemoveObjectLock(s)
    \/ \E s \in Sys : RemoveObjectShift(s)
    \/ \E s \in Sys : RemoveObjectUnlock(s)
    \/ \E s \in Sys : TickResults(s)
    \/ \E s \in Sys : TickEnd(s)
    \/ \E s \in Sys : WgDone(s)

Spec == Init /\ [][Next]_vars

\* Every step of system s's goroutine.
Step(s) ==
    \/ RunOnce(s)
    \/ SelectTick(s)
    \/ SelectClosed(s)
    \/ SelectDone(s)
    \/ TickNext(s)
    \/ Call(s)
    \/ RemoveObjectLock(s)
    \/ RemoveObjectShift(s)
    \/ RemoveObjectUnlock(s)
    \/ TickResults(s)
    \/ TickEnd(s)
    \/ WgDone(s)

\* The scheduling the Go runtime gives: a goroutine that can run does run, a
\* trigger source delivers, and a select with several ready cases picks each
\* of them at random, so a case that is ready again and again is taken.
Fairness ==
    /\ WF_vars(RunReturn)
    /\ \A s \in 1..2 :
          /\ WF_vars(s \in Sys /\ Step(s))
          /\ SF_vars(s \in Sys /\ SelectDone(s))

FairSpec == Spec /\ Fairness

ConcSpec == ConcInit /\ [][Next]_vars

FairConcSpec == ConcSpec /\ Fairness

\* ================================================================== claims
\* Whether a component bag holds a component of type t.
HasType(comps, t) == \E i \in 1..Len(comps) : comps[i].type = t

\* Whether a component bag satisfies a function's parameter list.
Satisfies(comps, f) ==
    \A k \in 1..Len(FuncIn(f)) :
        FuncIn(f)[k] \in {"World", "Entity", "Time"} \/ HasType(comps, FuncIn(f)[k])

\* Whether slot k holds the first component of its type in the bag.
FirstOfType(comps, k) == \A j \in 1..(k - 1) : comps[j].type # comps[k].type

\* The first component of type t of a bag that holds one.
FirstComp(comps, t) ==
    comps[CHOOSE k \in 1..Len(comps) : comps[k].type = t /\ FirstOfType(comps, k)]

\* The elements of a sequence.
Range(seq) == {seq[i] : i \in 1..Len(seq)}

\* System s has finished a sweep and tick is about to return.
SweepOver(s) == proc[s].pc = "loop" /\ proc[s].idx >= proc[s].rng.len

\* The only system of the world is a one-shot system running f.
OnlyOneShot(f) ==
    /\ Len(systems) = 1
    /\ systems[1].Func = f
    /\ systems[1].Ticker = "nil"

\* The step that ends an invocation of system s: error routing and
\* write-back (tick, lines 315-348).
ResultsStep(s) == proc[s].pc = "results" /\ proc'[s].pc = "loop"

\* C2: in every sweep the system is invoked exactly once for each object that
\* is in the collection when the sweep starts and satisfies the parameter
\* list, and no object is invoked twice, also when the system removes objects.
C2_OncePerMatchingObject ==
    \A s \in Sys :
        SweepOver(s) =>
            LET v == obs[s].visited IN
            /\ \A i, j \in 1..Len(v) : i # j => v[i].ob # v[j].ob
            /\ \A e \in Range(obs[s].atStart) :
                  Satisfies(components[e], systems[s].Func)
                     => \E i \in 1..Len(v) : v[i].ob = e

\* C3: after Run returns with the single one-shot system selfDestruct,
\* GetObject reports absent for every object with the marker component and
\* every object without it is still present.
C3_SelfRemoval ==
    (runPc = "returned" /\ OnlyOneShot("selfDestruct")) =>
        \A e \in DOMAIN components :
            IF HasType(components[e], "Marked")
            THEN GetObject(arrays, objects, e) = 0
            ELSE GetObject(arrays, objects, e) = e

\* C4 (the step): an invocation's results overwrite, each, the first
\* component in storage order of the result's type; every other component of
\* the object and every other object is unchanged, and a result no component
\* accepts is dropped.
C4_Step ==
    \A s \in Sys :
        ResultsStep(s) =>
            LET old == components[proc[s].ob]
                new == components'[proc[s].ob]
                res == proc[s].results
                Given(k) == {i \in 1..Len(res) :
                                /\ res[i].type # "error"
                                /\ res[i].type = old[k].type
                                /\ FirstOfType(old, k)}
            IN /\ \A e \in DOMAIN components :
                     e # proc[s].ob => components'[e] = components[e]
               /\ Len(new) = Len(old)
               /\ \A k \in 1..Len(old) :
                     new[k] = IF Given(k) = {} THEN old[k]
                              ELSE res[CHOOSE i \in Given(k) : TRUE]

\* C4 (the example): after one run of movement, an object that had
\* Position=1, Velocity=2 has Position=3, and nothing else changed.
C4_Example ==
    (runPc = "returned" /\ OnlyOneShot("movement")) =>
        \A e \in DOMAIN components :
            components[e] \in
                { <<Position(3), Velocity(2)>>,
                  <<Marked>>,
                  <<Position(1)>>,
                  <<Position(3), Velocity(2), Position(5)>> }

\* C4: write-back overwrites the first component in storage order whose type
\* accepts the returned value and nothing else, and drops a value no
\* component accepts (Position=1, Velocity=2 gives Position=3 after one run).
C4_WriteBack == [][C4_Step]_vars /\ []C4_Example

\* C4's case: movement has run on an object holding two Position components.
C4_Witness ==
    /\ runPc = "returned"
    /\ OnlyOneShot("movement")
    /\ \E e \in DOMAIN components :
          components[e] = <<Position(3), Velocity(2), Position(5)>>

\* C6: a system with no trigger source performs exactly one sweep per run,
\* over every object the sweep captured, and then its schedule ends, whether
\* or not the cancellation signal has fired before or during the sweep.
C6_OneShotOnce ==
    \A s \in Sys :
        systems[s].Ticker = "nil" =>
            /\ Len(obs[s].sweeps) <= 1
            /\ proc[s].pc \in {"loop", "call", "crit", "results"}
                  => Len(obs[s].sweeps) = 1
            /\ proc[s].pc \in {"exit", "done"} =>
                  /\ Len(obs[s].sweeps) = 1
                  /\ proc[s].idx = Len(obs[s].atStart)
                  /\ proc[s].ret = "nil"

\* C6's case: the cancellation signal has fired and a one-shot sweep goes on
\* to its next object all the same.
C6_Witness ==
    \E s \in Sys :
        /\ systems[s].Ticker = "nil"
        /\ cancelled
        /\ proc[s].pc = "call"
        /\ proc[s].idx >= 1

\* The record the handler gets for an invocation of system s that failed.
ExpectedErrCall(s) ==
    [name |-> IF systems[s].Name # "" THEN systems[s].Name ELSE "func1",
     args |-> [k \in 1..Len(FuncIn(systems[s].Func)) |->
                  FirstComp(components[proc[s].ob], FuncIn(systems[s].Func)[k])],
     err |-> cannotMove]

\* C9 (the step): an invocation whose trailing error is non-nil calls the
\* handler once, with the system's name, the resolved arguments in parameter
\* order and the error; any other step calls it not at all.
C9_Step ==
    /\ \A s \in Sys :
          (ResultsStep(s) /\ onError /\ systems[s].Func = "movementErr")
             => errCalls' = Append(errCalls, ExpectedErrCall(s))
    /\ errCalls' # errCalls =>
          \E s \in Sys : ResultsStep(s) /\ systems[s].Func = "movementErr"

\* C9 (the example): after a run of TestError's system, named "movement", on
\* objects with Position=1, Velocity=2, the handler has been called once per
\* such object with ("movement", [Position(1), Velocity(2)], cannotMove).
C9_Example ==
    (runPc = "returned" /\ OnlyOneShot("movementErr") /\ onError) =>
        /\ Len(errCalls) =
              Cardinality({e \in DOMAIN components :
                              Satisfies(components[e], "movementErr")})
        /\ \A i \in 1..Len(errCalls) :
              errCalls[i] =
                 [name |-> IF systems[1].Name = "" THEN "func1"
                           ELSE "movement",
                  args |-> <<Position(1), Velocity(2)>>,
                  err |-> cannotMove]

\* C9: each invocation whose trailing error is non-nil causes exactly one
\* call of the handler, with the system's name, the resolved argument values
\* in parameter order and the error; a nil error causes none.
C9_ErrorHandler == [][C9_Step]_vars /\ []C9_Example

\* C9's case: the handler has been called for TestError's system.
C9_Witness ==
    /\ runPc = "returned"
    /\ OnlyOneShot("movementErr")
    /\ systems[1].Name = "movement"
    /\ errCalls = <<[name |-> "movement",
                     args |-> <<Position(1), Velocity(2)>>,
                     err |-> cannotMove]>>

\* C10 (as claimed): after a run of TestError's system on an object with
\* Position=1, Velocity=2, the object's Position is still 1.
C10_PositionUnmodified ==
    (runPc = "returned" /\ OnlyOneShot("movementErr")) =>
        \A e \in DOMAIN components :
            Satisfies(components[e], "movementErr")
               => components[e][1] = Position(1)

\* C10 (amended): after a run of TestError's system on an object with
\* Position=1, Velocity=2, the object's first Position holds the Position the
\* failing call returned beside its error, 0; its other components are as
\* before.
C10_PositionOverwritten ==
    (runPc = "returned" /\ OnlyOneShot("movementErr")) =>
        \A e \in DOMAIN components :
            components[e] \in
                { <<Position(0), Velocity(2)>>,
                  <<Marked>>,
                  <<Position(1)>>,
                  <<Position(0), Velocity(2), Position(5)>> }

\* C10's case: TestError's system has run on an object with a Velocity.
C10_Witness ==
    /\ runPc = "returned"
    /\ OnlyOneShot("movementErr")
    /\ errCalls # <<>>
    /\ \E e \in DOMAIN components : components[e] = <<Position(0), Velocity(2)>>

\* C5 (safety): the sweeps of a system with a closing trigger source are the
\* source's timestamps in delivery order, one sweep per timestamp received;
\* every time-typed argument of a sweep's invocations is the sweep's
\* timestamp; once run has returned because the source was closed, the sweeps
\* are exactly the source's n timestamps, and movement has left Position=1+2n
\* on an object that had Position=1, Velocity=2.
C5_Sweeps ==
    \A s \in Sys :
        systems[s].Ticker = "closing" =>
            LET src == Source(systems[s])
                done == obs[s].sweeps
                f == systems[s].Func
            IN /\ Len(done) + Len(chan[s]) = Len(src)
               /\ done = SubSeq(src, 1, Len(done))
               /\ chan[s] = SubSeq(src, Len(done) + 1, Len(src))
               /\ \A i \in 1..Len(obs[s].visited) :
                     \A k \in 1..Len(FuncIn(f)) :
                         FuncIn(f)[k] = "Time" =>
                            obs[s].visited[i].args[k] =
                               Val("Time", done[Len(done)])
               /\ proc[s].ret = "nil" =>
                     /\ done = src
                     /\ (f = "movement" /\ Len(systems) = 1) =>
                           \A e \in DOMAIN components :
                               Satisfies(components[e], f) =>
                                  components[e][1] = Position(1 + 2 * Len(src))

\* C5 (liveness): a run none of whose systems has a never-ending trigger
\* source returns.
C5_Returns ==
    (runPc = "wait" /\ \A s \in Sys : systems[s].Ticker # "forever")
        ~> (runPc = "returned")

\* C5: a periodic system whose trigger source delivers n timestamps and is
\* then closed performs exactly n sweeps, one per timestamp in delivery order
\* and with that timestamp injected; its schedule then ends and Run returns
\* (Position=1, Velocity=2 and movement give Position=1+2n).
C5_ClosingSource == []C5_Sweeps /\ C5_Returns

\* C5's case: saveTime has been driven by a source of MaxTicks timestamps, the
\* source was closed and Run has returned.
C5_Witness ==
    /\ runPc = "returned"
    /\ ~cancelled
    /\ Len(systems) = 1
    /\ systems[1].Ticker = "closing"
    /\ systems[1].Func = "saveTime"
    /\ Len(obs[1].sweeps) = MaxTicks
    /\ obs[1].visited # <<>>

\* System s is between two reads of its range loop over w.objects.
SweepReading(s) == proc[s].pc = "loop" /\ proc[s].idx < proc[s].rng.len

\* System t is inside RemoveObject's critical section, changing the
\* collection.
Changing(t) == proc[t].pc = "crit" /\ proc[t].found # 0

\* C1: a dispatch sweep never overlaps a structural change of the collection
\* made by another system: while a system changes the collection under the
\* exclusive lock, no other system is in the middle of reading it.
C1_NoSweepDuringChange ==
    \A s, t \in Sys : (s # t /\ Changing(t)) => ~SweepReading(s)

\* C7: RunContext starts one schedule per registered system and returns only
\* when every one of them has ended; no system is sweeping, or yet to sweep,
\* once it has returned.
C7_ReturnAfterAll ==
    /\ runPc # "idle" =>
          /\ \A s \in Sys : proc[s].pc # "idle"
          /\ wg = Cardinality({s \in Sys : proc[s].pc # "done"})
    /\ runPc = "returned" => \A s \in Sys : proc[s].pc = "done"

\* C7's case: RunContext has returned from a run of two systems that both
\* went through a sweep with an invocation.
C7_Witness ==
    /\ runPc = "returned"
    /\ Len(systems) = 2
    /\ \A s \in Sys : obs[s].visited # <<>>

\* C8 (liveness): once the cancellation signal has fired during a run, the
\* run returns, whatever the trigger sources still deliver.
C8_Returns == (cancelled /\ runPc = "wait") ~> (runPc = "returned")

\* C8 (retained): components change only by the write-back of an invocation:
\* neither the cancellation nor a schedule's end touches them.
C8_Retained ==
    components' # components => \E s \in Sys : ResultsStep(s)

\* C8: after the cancellation signal fires every periodic schedule ends and
\* RunContext returns, even when a trigger source delivers forever; what the
\* sweeps before the cancellation wrote is kept.
C8_Cancellation == C8_Returns /\ [][C8_Retained]_vars

\* C8's case: a system with a never-ending source has written Position
\* components, was cancelled, and RunContext has returned.
C8_Witness ==
    /\ runPc = "returned"
    /\ cancelled
    /\ \E s \in Sys :
          /\ systems[s].Ticker = "forever"
          /\ systems[s].Func = "movement"
          /\ proc[s].ret = "ctxErr"
    /\ \E e \in DOMAIN components :
          /\ components[e][1].type = "Position"
          /\ components[e][1].val > 3

\* The objects of a sequence of entities that satisfy f's parameter list.
Matching(seq, f) ==
    LET Fits(e) == Satisfies(components[e], f) IN SelectSeq(seq, Fits)

\* The objects a sweep has invoked the system on, in order.
Invoked(s) == [i \in 1..Len(obs[s].visited) |-> obs[s].visited[i].ob]

\* C11: an invocation that returns a non-nil error does not abort the sweep:
\* a sweep of a failing system still invokes every matching object, a periodic
\* failing system still performs every sweep its source gives, and the only
\* thing a schedule hands back is nil or the context's error, which RunContext
\* drops.
C11_ErrorDoesNotAbort ==
    \A s \in Sys :
        systems[s].Func = "movementErr" =>
            /\ SweepOver(s) =>
                  Invoked(s) = Matching(obs[s].atStart, "movementErr")
            /\ proc[s].ret \in {"none", "nil", "ctxErr"}
            /\ (systems[s].Ticker = "closing" /\ proc[s].ret = "nil")
                  => obs[s].sweeps = Source(systems[s])
            /\ (proc[s].ret = "nil" /\ onError) =>
                  Len(errCalls) =
                     Len(Matching(SliceElems(arrays, objects), "movementErr"))
                        * Len(obs[s].sweeps)

\* C11's case: a failing periodic system has run two sweeps over two matching
\* objects, failing four times, and Run has returned.
C11_Witness ==
    /\ runPc = "returned"
    /\ Len(systems) = 1
    /\ systems[1].Func = "movementErr"
    /\ systems[1].Ticker = "closing"
    /\ Len(obs[1].sweeps) = 2
    /\ Len(obs[1].visited) = 2
    /\ Len(errCalls) = 4

\* ======================================================= the query iterator
MaxIterObjs == 3    \* objects of a world a client queries
MaxPast == 1        \* how far past the collection's length an offset goes

\* The marker components of TestMoveTowardsTarget and TestQueryAll.
Player == Val("Player", 0)
Target == Val("Target", 0)

\* The component bags of the worlds a client queries.
IterTemplates ==
    { <<Player, Position(1)>>,
      <<Target, Position(5)>>,
      <<Target>>,
      <<Position(2), Target, Position(7)>> }

\* The iterator function types: TestMoveTowardsTarget's, TestQueryAll's, and
\* an enumerating query for a data component.
IterTypes ==
    { [In |-> <<>>,      Out |-> <<"Target", "Position", "bool">>],
      [In |-> <<"int">>, Out |-> <<"int", "Entity", "Target", "bool">>],
      [In |-> <<"int">>, Out |-> <<"int", "Position", "bool">>] }

\* reflect.Zero(t), and the two values of a bool.
Zero(t) == Val(t, 0)
True == Val("bool", 1)

\* (mutant) the last component of the type instead of the first.
getComponentValueLast(comps, t) ==
    LET n == Len(comps)
        r == FirstFrom([i \in 1..n |-> comps[n + 1 - i].type = t], 1, n)
    IN IF r = 0 THEN Invalid ELSE comps[n + 1 - r]

\* Object.getComponentValue: the first component whose type is t, or the zero
\* Value.
getComponentValue(comps, t) ==
    LET i == FirstFrom([k \in 1..Len(comps) |-> comps[k].type = t],
                       1, Len(comps))
    IN IF i = 0 THEN Invalid ELSE comps[i]

\* (mutant) the index output is the position inside w.objects[start:].
IterIndexRelative(i, start) == i

\* The index output for the i-th element of w.objects[start:].
IterIndex(i, start) == i + start

\* The iterator's inner loop over the outputs but the last, from output k on,
\* for the object ob at index i of w.objects[start:]: results is shared by all
\* objects of the scan; the loop stops at the first component output the
\* object cannot give (continue ol).
RECURSIVE IterOuts(_, _, _, _, _, _, _)
IterOuts(outs, k, results, i, start, entity, comps) ==
    IF k > Len(outs) - 1 THEN [ok |-> TRUE, results |-> results]
    ELSE IF outs[k] = "int"
    THEN IterOuts(outs, k + 1,
                  [results EXCEPT ![k] = Val("int", IterIndex(i, start))],
                  i, start, entity, comps)
    ELSE IF outs[k] = "Entity"
    THEN IterOuts(outs, k + 1, [results EXCEPT ![k] = Val("Entity", entity)],
                  i, start, entity, comps)
    ELSE LET c == getComponentValue(comps, outs[k]) IN
         IF c = Invalid THEN [ok |-> FALSE, results |-> results]
         ELSE IterOuts(outs, k + 1, [results EXCEPT ![k] = c],
                       i, start, entity, comps)

\* The iterator's closing loop: every int output is len(w.objects), every
\* other output the zero value of its type (false for the last).
IterNotFound(outs, len) ==
    [k \in 1..Len(outs) |->
        IF outs[k] = "int" THEN Val("int", len) ELSE Zero(outs[k])]

\* The iterator's loop ol over w.objects[start:] from its i-th element on.
RECURSIVE IterScan(_, _, _, _, _, _, _)
IterScan(outs, i, start, results, arrs, hdr, comps) ==
    IF i + start >= hdr.len THEN IterNotFound(outs, hdr.len)
    ELSE LET ob == arrs[hdr.arr][i + start + 1]
             r == IterOuts(outs, 1, results, i, start, ob, comps[ob])
         IN IF r.ok THEN [r.results EXCEPT ![Len(outs)] = True]
            ELSE IterScan(outs, i + 1, start, r.results, arrs, hdr, comps)

\* The resume offset: the argument when the function type has one input of
\* kind int, else 0.
IterStart(t, args) ==
    IF Len(t.In) = 1 /\ t.In[1] = "int" THEN args[1].val ELSE 0

\* One call of the function makeObjectIter builds for type t.  The slice
\* expression w.objects[start:] panics when start exceeds len(w.objects).
ObjectIter(t, args, arrs, hdr, comps) ==
    LET start == IterStart(t, args) IN
    IF start < 0 \/ start > hdr.len
    THEN [panic |-> TRUE, results |-> <<>>]
    ELSE [panic |-> FALSE,
          results |-> IterScan(t.Out, 0, start,
                               [k \in 1..Len(t.Out) |-> Invalid],
                               arrs, hdr, comps)]

\* World.RemoveObject as one step of a caller that runs alone: the collection
\* with the first object of that entity cut out (the tail shifted down inside
\* the same backing array), or as it was.
RECURSIVE ShiftDown(_, _, _)
ShiftDown(arr, j, len) ==
    IF j >= len THEN arr
    ELSE ShiftDown([arr EXCEPT ![j] = arr[j + 1]], j + 1, len)

RemoveObjectFrom(arrs, hdr, entity) ==
    LET i == FindObject(arrs, hdr, entity) IN
    IF i = 0 THEN [arrays |-> arrs, hdr |-> hdr]
    ELSE [arrays |-> [arrs EXCEPT ![hdr.arr] = ShiftDown(@, i, hdr.len)],
          hdr |-> [hdr EXCEPT !.len = @ - 1]]

\* The client of the iterator: op is "call" (one call with any offset) or
\* "enum" (TestQueryAll's loop: offset 0, then the returned index plus one
\* while found); pc is "ready", "called", "enum", "enumDone" or "panicked".
IterClient(pc, op, t, start, out, seen, changed) ==
    [pc |-> pc, op |-> op, t |-> t, start |-> start, out |-> out,
     seen |-> seen, changed |-> changed]

IterIdle ==
    IterClient("ready", "none", [In |-> <<>>, Out |-> <<>>], 0, <<>>, <<>>,
               FALSE)

\* A world of up to MaxIterObjs objects and no system, and a client that
\* holds an iterator.
IterInit ==
    /\ systems = <<>>
    /\ onError = TRUE
    /\ \E n \in 0..MaxIterObjs :
         /\ components \in [1..n -> IterTemplates]
         /\ gid = n
         /\ arrays = SetupWorld(n).arrays
         /\ objects = SetupWorld(n).hdr
    /\ objectsMu = [writer |-> 0, readers |-> {}]
    /\ chan = <<>>
    /\ cancelled = FALSE
    /\ runPc = "idle"
    /\ wg = 0
    /\ proc = <<>>
    /\ obs = <<>>
    /\ errCalls = <<>>
    /\ api = IterIdle

\* What neither the iterator nor RemoveObject touches.
iterFrame == <<systems, onError, components, objectsMu, chan, cancelled,
               runPc, wg, proc, obs, errCalls, gid>>

\* One call of the iterator with a resume offset of the client's choosing.
IterCall(t, start) ==
    /\ api.pc \in {"ready", "called", "enumDone"}
    /\ LET r == ObjectIter(t, <<Val("int", start)>>, arrays, objects,
                           components)
       IN api' = IterClient(IF r.panic THEN "panicked" ELSE "called",
                            "call", t, start, r.results, <<>>, FALSE)
    /\ UNCHANGED <<arrays, objects>>
    /\ UNCHANGED iterFrame

\* targetIter(0): the first call of an enumeration.
EnumStart(t) ==
    /\ api.pc \in {"ready", "called", "enumDone"}
    /\ t.In = <<"int">>
    /\ api' = IterClient("enum", "enum", t, 0, <<>>, <<>>, FALSE)
    /\ UNCHANGED <<arrays, objects>>
    /\ UNCHANGED iterFrame

\* One turn of `for i, entity, _, ok := targetIter(0); ok; ... = targetIter(i + 1)`.
EnumStep ==
    /\ api.pc = "enum"
    /\ LET r == ObjectIter(api.t, <<Val("int", api.start)>>, arrays, objects,
                           components)
           n == Len(api.t.Out)
       IN api' =
            IF r.panic
            THEN [api EXCEPT !.pc = "panicked", !.out = r.results]
            ELSE IF r.results[n] = True
            THEN [api EXCEPT !.out = r.results,
                             !.seen = Append(@, r.results[1].val),
                             !.start = r.results[1].val + 1]
            ELSE [api EXCEPT !.pc = "enumDone", !.out = r.results]
    /\ UNCHANGED <<arrays, objects>>
    /\ UNCHANGED iterFrame

\* World.RemoveObject between two calls of the iterator: an earlier single
\* call's outcome is forgotten, an enumeration under way is marked.
IterRemoveObject(e) ==
    /\ api.pc \in {"ready", "called", "enum", "enumDone"}
    /\ CanLock
    /\ FindObject(arrays, objects, e) # 0
    /\ LET w == RemoveObjectFrom(arrays, objects, e) IN
          /\ arrays' = w.arrays
          /\ objects' = w.hdr
    /\ api' = IF api.pc = "enum" THEN [api EXCEPT !.changed = TRUE]
              ELSE IterIdle
    /\ UNCHANGED iterFrame

IterNext ==
    \/ \E t \in IterTypes : \E start \in 0..(objects.len + MaxPast) :
          IterCall(t, start)
    \/ \E t \in IterTypes : EnumStart(t)
    \/ EnumStep
    \/ \E e \in DOMAIN components : IterRemoveObject(e)

IterSpec == IterInit /\ [][IterNext]_vars

\* ---------------------------------------------- claims about the iterator
\* Whether a component bag holds every component type the function type t
\* asks for.
HoldsAll(comps, t) ==
    \A k \in 1..(Len(t.Out) - 1) :
        t.Out[k] \in {"int", "Entity"} \/ HasType(comps, t.Out[k])

\* The object at (zero-based) position p of the collection.
ObjectAt(p) == arrays[objects.arr][p + 1]

\* The positions of the collection, in order, whose object answers t.
MatchPos(t) ==
    LET Fits(p) == HoldsAll(components[ObjectAt(p)], t) IN
    SelectSeq([q \in 1..objects.len |-> q - 1], Fits)

\* The positions answering t at or after offset from.
MatchFrom(t, from) == {p \in Range(MatchPos(t)) : p >= from}

\* The offset the client's last call resumed from.
CallStart == IF api.t.In = <<"int">> THEN api.start ELSE 0

\* The outputs the claims expect of a call that found the object at p.
FoundAt(t, p) ==
    [k \in 1..Len(t.Out) |->
        IF k = Len(t.Out) THEN Val("bool", 1)
        ELSE IF t.Out[k] = "int" THEN Val("int", p)
        ELSE IF t.Out[k] = "Entity" THEN Val("Entity", ObjectAt(p))
        ELSE FirstComp(components[ObjectAt(p)], t.Out[k])]

\* The outputs the claims expect of a call that found nothing.
FoundNone(t) ==
    [k \in 1..Len(t.Out) |->
        IF t.Out[k] = "int" THEN Val("int", objects.len)
        ELSE Val(t.Out[k], 0)]

\* The world of TestMoveTowardsTarget.
PlayerAndTarget ==
    /\ objects.len = 2
    /\ components[ObjectAt(0)] = <<Player, Position(1)>>
    /\ components[ObjectAt(1)] = <<Target, Position(5)>>

\* C12: a call with resume offset s returns found=true with the index, entity
\* and requested components of the first object at position >= s holding every
\* requested component type, all from that one object and each component its
\* first of the type; the (Target, Position, bool) query in the world of
\* TestMoveTowardsTarget yields the target's Position=5.
C12_IterResult ==
    (api.op = "call" /\ api.pc = "called") =>
        /\ MatchFrom(api.t, CallStart) # {} =>
              api.out =
                 FoundAt(api.t, CHOOSE p \in MatchFrom(api.t, CallStart) :
                                   \A q \in MatchFrom(api.t, CallStart) : p <= q)
        /\ (PlayerAndTarget /\ api.t.Out = <<"Target", "Position", "bool">>)
              => api.out = <<Target, Position(5), Val("bool", 1)>>

\* C12's case: an (int, Position, bool) query resumed at offset 1 has skipped
\* an object without Position and found one holding two Positions.
C12_Witness ==
    /\ api.op = "call"
    /\ api.pc = "called"
    /\ api.start = 1
    /\ api.out = <<Val("int", 2), Position(2), Val("bool", 1)>>

\* C13: with no structural change between the calls, offset 0 and then the
\* returned index plus one while found visits exactly the objects holding the
\* requested component types, once each and in collection order, and ends
\* with found=false.
C13_EnumerateAll ==
    (api.op = "enum" /\ ~api.changed) =>
        /\ api.pc # "panicked"
        /\ Len(api.seen) <= Len(MatchPos(api.t))
        /\ api.seen = SubSeq(MatchPos(api.t), 1, Len(api.seen))
        /\ api.pc = "enumDone" =>
              /\ api.seen = MatchPos(api.t)
              /\ api.out[Len(api.out)] = Val("bool", 0)

\* C13's case: an enumeration has ended after visiting the first and the
\* third of three objects.
C13_Witness ==
    /\ api.op = "enum"
    /\ api.pc = "enumDone"
    /\ ~api.changed
    /\ objects.len = 3
    /\ api.seen = <<0, 2>>

\* C14: a call from any resume offset from which no object answers the query,
\* offsets at or past the collection's length included, returns normally with
\* found=false, every int output the collection's length and every other
\* output zero.
C14_NotFound ==
    /\ api.pc # "panicked"
    /\ (api.op = "call" /\ api.pc = "called"
           /\ MatchFrom(api.t, CallStart) = {})
          => api.out = FoundNone(api.t)
    /\ api.pc = "enumDone" => api.out = FoundNone(api.t)

\* ================================================ the package called directly
MaxNew == 2         \* calls of NewObject
MaxColl == 3        \* length the collection grows to

\* The goroutines that call NewObject concurrently.
Callers == {"a", "b"}

\* The component lists NewObject is called with: none, one of a type, and two
\* of a type at every pair of positions.
ApiTemplates ==
    { <<>>,
      <<Position(1), Velocity(2)>>,
      <<Velocity(2), Velocity(3)>>,
      <<Velocity(2), Velocity(3), Position(1)>>,
      <<Velocity(2), Position(1), Velocity(3)>>,
      <<Position(1), Velocity(2), Velocity(3)>> }

\* The component types a caller names by a representative value.
ApiTypes == {"Position", "Velocity"}

\* A nil interface value / nil *Object.
Nil == Val("nil", 0)

\* (mutant) the counter's value before the addition.
NewEntityBefore(g) == g

\* Entity(atomic.AddUint64(&gid, 1)): the counter's value after the addition.
\* The calls are bounded far below 2^64, so the counter does not wrap.
NewEntity(g) == g + 1

\* Object.Component: the first component whose type is t, or nil.
Component(comps, t) ==
    LET i == FirstFrom([k \in 1..Len(comps) |-> comps[k].type = t],
                       1, Len(comps))
    IN IF i = 0 THEN Nil ELSE comps[i]

\* Object.RemoveComponent's loop from (one-based) index i on.  The range
\* statement captured the n elements of arr; len is the length ob.components
\* has by now.  A match at index i cuts element i out of ob.components, whose
\* tail expression ob.components[i+1:] panics once i is past len; the loop
\* neither breaks nor returns after a match.
RECURSIVE RemoveComponentLoop(_, _, _, _, _)
RemoveComponentLoop(arr, len, i, n, t) ==
    IF i > n THEN [panic |-> FALSE, comps |-> SubSeq(arr, 1, len)]
    ELSE IF arr[i].type # t THEN RemoveComponentLoop(arr, len, i + 1, n, t)
    ELSE IF i > len THEN [panic |-> TRUE, comps |-> SubSeq(arr, 1, len)]
    ELSE RemoveComponentLoop(ShiftDown(arr, i, len), len - 1, i + 1, n, t)

\* Object.RemoveComponent.
RemoveComponent(comps, t) ==
    RemoveComponentLoop(comps, Len(comps), 1, Len(comps), t)

\* The caller's record of its last call: the operation, the entity and type
\* it named, the collection (or component list) before it, and what the
\* lookup made right after it returned.
LastCall(op, e, t, before, got) ==
    [op |-> op, e |-> e, t |-> t, before |-> before, got |-> got]

NoCall == LastCall("none", 0, "", <<>>, Nil)

\* The callers: pending is the identifier a caller's NewObject has drawn and
\* not yet returned (-1: none), made the identifiers returned so far.
ApiIdle ==
    [pc |-> "ready", pending |-> [c \in Callers |-> -1], made |-> <<>>,
     last |-> NoCall]

\* NewWorld(): no object made, none added.
ApiInit ==
    /\ systems = <<>>
    /\ onError = TRUE
    /\ components = <<>>
    /\ gid = 0
    /\ arrays = SetupWorld(0).arrays
    /\ objects = SetupWorld(0).hdr
    /\ objectsMu = [writer |-> 0, readers |-> {}]
    /\ chan = <<>>
    /\ cancelled = FALSE
    /\ runPc = "idle"
    /\ wg = 0
    /\ proc = <<>>
    /\ obs = <<>>
    /\ errCalls = <<>>
    /\ api = ApiIdle

\* What no direct call touches.
apiFrame == <<systems, onError, objectsMu, chan, cancelled, runPc, wg, proc,
              obs, errCalls>>

\* NewObject(cs...) up to the atomic addition: the new object's identifier
\* and components are fixed from here on.
NewObjectAdd(c, cs) ==
    /\ api.pc = "ready"
    /\ api.pending[c] = -1
    /\ gid < MaxNew
    /\ gid' = gid + 1
    /\ components' = (NewEntity(gid) :> cs) @@ components
    /\ api' = [api EXCEPT !.pending[c] = NewEntity(gid)]
    /\ UNCHANGED <<arrays, objects>>
    /\ UNCHANGED apiFrame

\* NewObject returns the object to its caller.
NewObjectReturn(c) ==
    /\ api.pc = "ready"
    /\ api.pending[c] # -1
    /\ api' = [api EXCEPT !.pending[c] = -1,
                          !.made = Append(@, api.pending[c])]
    /\ UNCHANGED <<gid, components, arrays, objects>>
    /\ UNCHANGED apiFrame

\* The backing arrays once append has moved the collection to a new one: no
\* sweep is under way, so nothing refers to the old array and it is freed.
Collected(arrs, hdr) ==
    [k \in DOMAIN arrs |-> IF k = hdr.arr THEN arrs[k] ELSE <<>>]

\* World.AddObject of an object some caller holds (again, if it likes).
ApiAddObject(e) ==
    /\ api.pc = "ready"
    /\ e \in Range(api.made)
    /\ objects.len < MaxColl
    /\ CanLock
    /\ LET w == AddObjectTo(arrays, objects, e) IN
          /\ arrays' = Collected(w.arrays, w.hdr)
          /\ objects' = w.hdr
    /\ api' = [api EXCEPT !.last =
                  LastCall("AddObject", e, "", SliceElems(arrays, objects), Nil)]
    /\ UNCHANGED <<gid, components>>
    /\ UNCHANGED apiFrame

\* world.RemoveObject(e) and then world.GetObject(e), as
\* TestAddAndRemoveObjects does; e is known to the caller or was never made.
ApiRemoveObject(e) ==
    /\ api.pc = "ready"
    /\ CanLock
    /\ LET w == RemoveObjectFrom(arrays, objects, e) IN
          /\ arrays' = w.arrays
          /\ objects' = w.hdr
          /\ api' = [api EXCEPT !.last =
                        LastCall("RemoveObject", e, "",
                                 SliceElems(arrays, objects),
                                 Val("Object", GetObject(w.arrays, w.hdr, e)))]
    /\ UNCHANGED <<gid, components>>
    /\ UNCHANGED apiFrame

\* ob.RemoveComponent(x) and then ob.Component(x), as
\* TestAddAndRemoveComponents does.  A panic ends the program.
ApiRemoveComponent(e, t) ==
    /\ api.pc = "ready"
    /\ e \in Range(api.made)
    /\ LET r == RemoveComponent(components[e], t) IN
          /\ components' = [components EXCEPT ![e] = r.comps]
          /\ api' = [api EXCEPT
                        !.pc = IF r.panic THEN "panicked" ELSE "ready",
                        !.last = LastCall("RemoveComponent", e, t,
                                          components[e],
                                          IF r.panic THEN Nil
                                          ELSE Component(r.comps, t))]
    /\ UNCHANGED <<gid, arrays, objects>>
    /\ UNCHANGED apiFrame

ApiNext ==
    \/ \E c \in Callers : \E cs \in ApiTemplates : NewObjectAdd(c, cs)
    \/ \E c \in Callers : NewObjectReturn(c)
    \/ \E e \in Range(api.made) : ApiAddObject(e)
    \/ \E e \in Range(api.made) \cup {MaxNew + 1} : ApiRemoveObject(e)
    \/ \E e \in Range(api.made) : \E t \in ApiTypes : ApiRemoveComponent(e, t)

ApiSpec == ApiInit /\ [][ApiNext]_vars

\* ------------------------------------------- claims about the direct calls
\* A sequence without the elements equal to x.
Without(seq, x) == LET Keep(y) == y # x IN SelectSeq(seq, Keep)

\* The components of a list whose type is not t, and those whose type is t.
OtherTypes(comps, t) == LET Keep(c) == c.type # t IN SelectSeq(comps, Keep)
OfType(comps, t) == LET Keep(c) == c.type = t IN SelectSeq(comps, Keep)

\* A sequence without its k-th element.
CutAt(seq, k) == SubSeq(seq, 1, k - 1) \o SubSeq(seq, k + 1, Len(seq))

\* C15: after RemoveObject(e) returns, GetObject(e) reports absent, whatever
\* AddObject and RemoveObject calls came before; removing an entity that is
\* not in the collection leaves the collection as it was, and removing e
\* leaves the other objects present in their order.
C15_RemoveThenGet ==
    api.last.op = "RemoveObject" =>
        /\ api.last.got = Val("Object", 0)
        /\ api.last.e \notin Range(api.last.before)
              => SliceElems(arrays, objects) = api.last.before
        /\ Without(SliceElems(arrays, objects), api.last.e)
              = Without(api.last.before, api.last.e)

\* C16: after RemoveComponent(x) returns, the object holds no component of
\* x's type and Component(x) reports absent, for any component list, lists
\* with several components of the type included; the components of other
\* types are kept in their order.
C16_RemoveComponent ==
    api.last.op = "RemoveComponent" =>
        /\ api.pc # "panicked"
        /\ api.last.got = Nil
        /\ ~HasType(components[api.last.e], api.last.t)
        /\ OtherTypes(components[api.last.e], api.last.t)
              = OtherTypes(api.last.before, api.last.t)

\* C17: on an object holding two components of one type, at any positions,
\* RemoveComponent completes normally and removes exactly the first of the
\* two, leaving the second and every other component in place and in order.
C17_RemoveFirstOfTwo ==
    (api.last.op = "RemoveComponent"
        /\ Len(OfType(api.last.before, api.last.t)) = 2) =>
        /\ api.pc # "panicked"
        /\ components[api.last.e]
              = CutAt(api.last.before,
                      CHOOSE k \in 1..Len(api.last.before) :
                          /\ api.last.before[k].type = api.last.t
                          /\ FirstOfType(api.last.before, k))

\* The identifiers NewObject has handed out or is about to.
Drawn ==
    (Range(api.made) \cup {api.pending[c] : c \in Callers}) \ {-1}

\* C19 (distinct): the identifiers NewObject gives its callers, in any
\* interleaving of up to MaxNew concurrent calls, are pairwise distinct and
\* not zero.
C19_Distinct ==
    /\ \A i, j \in 1..Len(api.made) : i # j => api.made[i] # api.made[j]
    /\ \A c \in Callers :
          api.pending[c] # -1 =>
             /\ api.pending[c] \notin Range(api.made)
             /\ \A d \in Callers \ {c} : api.pending[d] # api.pending[c]
    /\ 0 \notin Drawn
    /\ Cardinality(Drawn) = gid

\* C19 (stable): an object's identifier is the same ever after.
C19_Stable ==
    /\ Len(api.made') >= Len(api.made)
    /\ \A k \in 1..Len(api.made) : api.made'[k] = api.made[k]
    /\ \A e \in DOMAIN components : e \in DOMAIN components'

\* C19: entity identifiers returned by NewObject are pairwise distinct and
\* non-zero for calls made in any interleaving by concurrent callers, and an
\* object's identifier never changes after construction.
C19_EntityIds == []C19_Distinct /\ [][C19_Stable]_vars

\* C19's case: two concurrent calls have returned in the opposite order of
\* their draws from the counter.
C19_Witness ==
    /\ api.made = <<2, 1>>
    /\ gid = 2

\* ------------------------------------------------ duplicates in dispatch
\* The object was built with two Position components, a Velocity between.
TwoPositions(e) ==
    /\ Len(components[e]) = 3
    /\ components[e][1].type = "Position"
    /\ components[e][3].type = "Position"

\* C18: on an object holding two components of one type, parameter resolution
\* and Object.Component read the first in storage order and write-back
\* overwrites the first; the second is never passed to a system and never
\* changed, however many sweeps run.
C18_FirstOfDuplicates ==
    \A e \in DOMAIN components :
        TwoPositions(e) =>
            /\ components[e][3] = Position(5)
            /\ Component(components[e], "Position") = components[e][1]
            /\ \A s \in Sys :
                  (proc[s].pc = "call" /\ proc[s].ob = e) =>
                     \A k \in 1..Len(FuncIn(systems[s].Func)) :
                        FuncIn(systems[s].Func)[k] = "Position" =>
                           proc[s].argValues[k] = components[e][1]

\* C18's case: three sweeps of movement have moved the first Position of such
\* an object from 1 to 7 and left the second at 5.
C18_Witness ==
    /\ runPc = "returned"
    /\ Len(systems) = 1
    /\ systems[1].Func = "movement"
    /\ Len(obs[1].sweeps) = 3
    /\ \E e \in DOMAIN components :
          components[e] = <<Position(7), Velocity(2), Position(5)>>

\* ------------------------------------------------------------ no-op runs
\* The world has no system, or no object was ever added to it.
NoOpWorld == Len(systems) = 0 \/ DOMAIN components = {}

\* C20 (quiet): in a world with no system or no object, no system function is
\* invoked and the error handler is never called; with no system, RunContext
\* has nothing to wait for.
C20_Quiet ==
    NoOpWorld =>
        /\ errCalls = <<>>
        /\ \A s \in Sys :
              /\ obs[s].visited = <<>>
              /\ proc[s].pc \notin {"call", "crit", "results"}
        /\ (Len(systems) = 0 /\ runPc = "wait") => wg = 0

\* C20 (as claimed): Run of a world with no system or no object returns,
\* whatever systems are registered, one-shot or periodic.
C20_AlwaysReturns ==
    (runPc = "wait" /\ NoOpWorld) ~> (runPc = "returned")

\* C20 (as claimed): a run of a world with zero systems or zero objects
\* returns, no system function is invoked and the handler is never called.
C20_NoOpRun == []C20_Quiet /\ C20_AlwaysReturns

\* C20 (amended, return): such a run returns when each of its periodic
\* systems has a source that gets closed, or once the context is cancelled.
C20_ReturnsWhenSchedulesEnd ==
    (/\ runPc = "wait"
     /\ NoOpWorld
     /\ \A s \in Sys : systems[s].Ticker = "forever" => cancelled)
        ~> (runPc = "returned")

\* C20 (amended): in a run of a world with zero systems or zero objects no
\* system function is invoked and the handler is never called; the run returns
\* at once when every system is one-shot, and otherwise when every periodic
\* system's source has been closed or the context is cancelled.
C20_NoOpRunEnds == []C20_Quiet /\ C20_ReturnsWhenSchedulesEnd

\* C20's case: a run of two systems over no object has returned, uncancelled,
\* after a periodic one swept the empty collection for each timestamp of its
\* source.
C20_Witness ==
    /\ runPc = "returned"
    /\ ~cancelled
    /\ DOMAIN components = {}
    /\ Len(systems) = 2
    /\ \E s \in Sys :
          /\ systems[s].Ticker = "closing"
          /\ obs[s].sweeps # <<>>

\* ------------------------------------------------- no partial invocation
\* The object loop ol of system s is about to read from its range.
AtObject(s) == proc[s].pc = "loop" /\ proc[s].idx < proc[s].rng.len

\* The object that pass reads.
NextObject(s) == arrays[proc[s].rng.arr][proc[s].idx + 1]

\* C21 (skip): the pass over an object that lacks a component for one of the
\* parameters invokes nothing, changes no component, calls no handler and
\* leaves the loop at the next object.
C21_Skip ==
    \A s \in Sys :
        (/\ AtObject(s)
         /\ proc'[s] # proc[s]
         /\ ~Satisfies(components[NextObject(s)], systems[s].Func))
        => /\ proc'[s].pc = "loop"
           /\ proc'[s].idx = proc[s].idx + 1
           /\ obs'[s].visited = obs[s].visited
           /\ components' = components
           /\ errCalls' = errCalls

\* C21 (frame): a step changes the components of an object only when it ends
\* an invocation of that object, whose components satisfied the parameters.
C21_Frame ==
    \A e \in DOMAIN components :
        components'[e] # components[e]
        => \E s \in Sys :
              /\ proc[s].pc = "results"
              /\ proc[s].ob = e
              /\ obs[s].visited # <<>>
              /\ obs[s].visited[Len(obs[s].visited)].ob = e

\* C21 (fresh): every argument of an invocation was resolved from the invoked
\* object, whatever the objects skipped before it left in argValues.
C21_Fresh ==
    \A s \in Sys :
        proc[s].pc = "call"
        => LET types == FuncIn(systems[s].Func) IN
           /\ Len(proc[s].argValues) = Len(types)
           /\ \A i \in 1..Len(types) :
                 /\ proc[s].argValues[i] # Invalid
                 /\ proc[s].argValues[i] =
                       ResolveArg(types[i], proc[s].ob,
                                  components[proc[s].ob], proc[s].now)

\* C21: an object lacking a component for a data parameter is not invoked and
\* not changed, the sweep goes on with the next object, and no argument
\* resolved for a skipped object reaches a later invocation.
C21_NoPartialInvocation == [][C21_Skip /\ C21_Frame]_vars /\ []C21_Fresh

\* C21's case: an object is invoked right after an object that was skipped
\* with its Position already resolved, and that Position is not the one
\* passed.
C21_Witness ==
    \E s \in Sys :
        /\ proc[s].pc = "call"
        /\ proc[s].idx >= 1
        /\ FuncIn(systems[s].Func)[1] = "Position"
        /\ LET prev == arrays[proc[s].rng.arr][proc[s].idx] IN
           /\ ~Satisfies(components[prev], systems[s].Func)
           /\ HasType(components[prev], "Position")
           /\ FirstComp(components[prev], "Position") # proc[s].argValues[1]

\* ============================================== systems with a query iterator
MaxQueryTicks == 2  \* timestamps of a closing source of such a system

\* The function body of a system that was handed a query iterator, run to its
\* end: moveTowards asks for the first target and steps towards it (t.Fatal,
\* which ends the goroutine, when there is none); findTargets enumerates the
\* targets and the other functions call the iterator once, and return
\* nothing.  An iterator call only reads the world.
QueryCall(f, args, arrs, hdr, comps) ==
    CASE f = "moveTowards" ->
            LET r == ObjectIter(FuncTypes[args[3].type], <<>>, arrs, hdr, comps)
            IN IF r.results[3] # True
               THEN [fatal |-> TRUE, results |-> <<>>]
               ELSE [fatal |-> FALSE,
                     results |-> << IF args[2].val < r.results[2].val
                                    THEN Position(WrapInt(args[2].val + 1))
                                    ELSE args[2] >>]
      [] OTHER -> [fatal |-> FALSE, results |-> <<>>]

\* f.Call of a function that calls its query iterator.
CallQuery(s) ==
    /\ proc[s].pc = "call"
    /\ FuncCallsIter(systems[s].Func)
    /\ LET r == QueryCall(systems[s].Func, proc[s].argValues, arrays, objects,
                          components)
       IN proc' = [proc EXCEPT ![s] =
                     IF r.fatal THEN [@ EXCEPT !.pc = "fatal"]
                     ELSE [@ EXCEPT !.pc = "results", !.results = r.results]]
    /\ UNCHANGED <<gid, api, systems, onError, components, arrays, objects,
                   objectsMu, chan, cancelled, runPc, wg, obs, errCalls>>

\* A world of up to MaxIterObjs players and targets and one system with a
\* query-iterator parameter, one-shot or with a closing source.
QueryInit ==
    /\ systems \in {<<sys>> : sys \in SystemValues(QueryFuncs, MaxQueryTicks)}
    /\ onError = TRUE
    /\ \E n \in 0..MaxIterObjs :
         /\ components \in [1..n -> IterTemplates]
         /\ gid = n
         /\ arrays = SetupWorld(n).arrays
         /\ objects = SetupWorld(n).hdr
    /\ objectsMu = [writer |-> 0, readers |-> {}]
    /\ chan = [s \in Sys |-> Source(systems[s])]
    /\ cancelled = FALSE
    /\ runPc = "idle"
    /\ wg = 0
    /\ proc = [s \in Sys |-> IdleProc]
    /\ obs = [s \in Sys |-> NoObs]
    /\ errCalls = <<>>
    /\ api = NoCalls

QueryNext ==
    \/ RunContext
    \/ RunReturn
    \/ \E s \in Sys : RunOnce(s)
    \/ \E s \in Sys : SelectTick(s)
    \/ \E s \in Sys : SelectClosed(s)
    \/ \E s \in Sys : TickNext(s)
    \/ \E s \in Sys : CallQuery(s)
    \/ \E s \in Sys : TickResults(s)
    \/ \E s \in Sys : TickEnd(s)
    \/ \E s \in Sys : WgDone(s)

QuerySpec == QueryInit /\ [][QueryNext]_vars

\* The types whose kind is an integer kind.
IntegerKinds == {"int"}

\* The shape contract of a query-iterator parameter is violated: more than
\* one input, a single input that is not of integer kind, fewer than two
\* outputs, or a last output that is not boolean.
ViolatesShape(t) ==
    LET ft == FuncTypes[t] IN
    \/ Len(ft.In) > 1
    \/ Len(ft.In) = 1 /\ ft.In[1] \notin IntegerKinds
    \/ Len(ft.Out) < 2
    \/ ft.Out[Len(ft.Out)] # "bool"

\* System s declares a function-typed parameter that violates the contract.
DeclaresBadIter(s) ==
    \E i \in 1..Len(FuncIn(systems[s].Func)) :
        /\ KindFunc(FuncIn(systems[s].Func)[i])
        /\ ViolatesShape(FuncIn(systems[s].Func)[i])

\* C22 (not invoked): a system with such a parameter is invoked for no object.
C22_NotInvoked ==
    \A s \in Sys :
        DeclaresBadIter(s) =>
            /\ obs[s].visited = <<>>
            /\ proc[s].pc \notin {"call", "results", "fatal"}

\* C22 (goes on): each pass of its sweep over an object leaves the loop at the
\* next object.
C22_GoesOn ==
    \A s \in Sys :
        (DeclaresBadIter(s) /\ AtObject(s) /\ proc'[s] # proc[s])
        => /\ proc'[s].pc = "loop"
           /\ proc'[s].idx = proc[s].idx + 1

\* C22: the construction of the query iterator fails whenever the
\* function-typed parameter has more than one input, a single input that is
\* not of integer kind, fewer than two outputs, or a last output that is not
\* boolean; the system is then not invoked for that object in that tick and
\* the sweep continues with the next object.
C22_ShapeContract == []C22_NotInvoked /\ [][C22_GoesOn]_vars

\* -------------------------------------------------- sweeps and cancellation
\* System s is between ticks, at run's select.
BetweenTicks(s) == proc[s].pc = "run" /\ systems[s].Ticker # "nil"

\* C23: a periodic system starts no new sweep after the cancellation signal
\* has fired: at the select with the signal set, a timestamp its trigger
\* source has ready is not consumed, and the schedule ends.
C23_Step ==
    \A s \in Sys :
        (cancelled /\ BetweenTicks(s))
        => /\ chan'[s] = chan[s]
           /\ obs'[s].sweeps = obs[s].sweeps
           /\ proc'[s].pc \in {"run", "exit"}

C23_NoSweepAfterCancel == [][C23_Step]_vars

\* ===================================================== the collection lock
LockObjs == 1       \* objects of a world whose systems call into the world
MaxCalls == 2       \* calls into the world one invocation makes

\* The calls a system function makes into the world, and those that take the
\* lock for writing.
WorldOps == {"AddObject", "GetObject", "RemoveObject", "Iter"}
Writes(op) == op \in {"AddObject", "RemoveObject"}

\* (mutant) the method returns with the lock still held.
UnlockForgotten(mu) == mu

\* w.objectsMu.Unlock(), deferred by AddObject and RemoveObject.
Unlock(mu) == [mu EXCEPT !.writer = 0]

\* w.objectsMu.RUnlock(), deferred by GetObject and by the iterator.
RUnlock(mu, s) == [mu EXCEPT !.readers = @ \ {s}]

\* A world of up to LockObjs objects and two one-shot systems running worker.
\* The RWMutex also tells the writer that has announced itself and waits for
\* the readers to leave (pending); a goroutine also tells the call it is in
\* (op), its argument (arg) and the calls its invocation has made (calls).
LockInit ==
    /\ systems = [s \in 1..2 |->
                     [Func |-> "worker", Name |-> "", Ticker |-> "nil", N |-> 0]]
    /\ onError = TRUE
    /\ \E n \in 0..LockObjs :
         /\ components = [e \in 1..n |-> <<Target, Position(5)>>]
         /\ gid = n
         /\ arrays = SetupWorld(n).arrays
         /\ objects = SetupWorld(n).hdr
    /\ objectsMu = [writer |-> 0, readers |-> {}, pending |-> 0]
    /\ chan = [s \in Sys |-> Source(systems[s])]
    /\ cancelled = FALSE
    /\ runPc = "idle"
    /\ wg = 0
    /\ proc = [s \in Sys |->
                 [calls |-> 0, op |-> "none", arg |-> 0] @@ IdleProc]
    /\ obs = [s \in Sys |-> NoObs]
    /\ errCalls = <<>>
    /\ api = NoCalls

\* The function body goes on to its next call: the call's argument is
\* evaluated (NewObject() for AddObject, the entity it was handed for
\* GetObject and RemoveObject) and the method is entered.
WorkerBegin(s, op) ==
    /\ proc[s].pc = "call"
    /\ systems[s].Func \in WorkerFuncs
    /\ proc[s].calls < MaxCalls
    /\ IF op = "AddObject"
       THEN /\ gid' = gid + 1
            /\ components' = (NewEntity(gid) :> <<>>) @@ components
       ELSE UNCHANGED <<gid, components>>
    /\ proc' = [proc EXCEPT ![s] =
                  [@ EXCEPT !.pc = IF Writes(op) THEN "wlock" ELSE "rlock",
                            !.op = op,
                            !.arg = IF op = "AddObject" THEN NewEntity(gid)
                                    ELSE proc[s].argValues[2].val,
                            !.calls = @ + 1]]
    /\ UNCHANGED <<api, systems, onError, arrays, objects, objectsMu, chan,
                   cancelled, runPc, wg, obs, errCalls>>

\* Lock(), first half: the writers' mutex is taken and the readers are told;
\* no other writer holds or awaits the lock.
LockAnnounce(s) ==
    /\ proc[s].pc = "wlock"
    /\ objectsMu.writer = 0
    /\ objectsMu.pending = 0
    /\ objectsMu' = [objectsMu EXCEPT !.pending = s]
    /\ proc' = [proc EXCEPT ![s].pc = "wdrain"]
    /\ UNCHANGED <<gid, api, systems, onError, components, arrays, objects, chan,
                   cancelled, runPc, wg, obs, errCalls>>

\* Lock(), second half: the readers that held the lock have left.
LockAcquire(s) ==
    /\ proc[s].pc = "wdrain"
    /\ objectsMu.readers = {}
    /\ objectsMu' = [objectsMu EXCEPT !.writer = s, !.pending = 0]
    /\ proc' = [proc EXCEPT ![s].pc = "wheld"]
    /\ UNCHANGED <<gid, api, systems, onError, components, arrays, objects, chan,
                   cancelled, runPc, wg, obs, errCalls>>

\* The body of AddObject or RemoveObject under the lock, the deferred Unlock,
\* and the return to the function body.
WriteUnlock(s) ==
    /\ proc[s].pc = "wheld"
    /\ LET w == IF proc[s].op = "AddObject"
                THEN AddObjectTo(arrays, objects, proc[s].arg)
                ELSE RemoveObjectFrom(arrays, objects, proc[s].arg)
       IN /\ arrays' = w.arrays
          /\ objects' = w.hdr
    /\ objectsMu' = Unlock(objectsMu)
    /\ proc' = [proc EXCEPT ![s].pc = "call"]
    /\ UNCHANGED <<gid, api, systems, onError, components, chan, cancelled,
                   runPc, wg, obs, errCalls>>

\* RLock(): no writer holds the lock or has announced itself.
RLockAcquire(s) ==
    /\ proc[s].pc = "rlock"
    /\ objectsMu.writer = 0
    /\ objectsMu.pending = 0
    /\ objectsMu' = [objectsMu EXCEPT !.readers = @ \cup {s}]
    /\ proc' = [proc EXCEPT ![s].pc = "rheld"]
    /\ UNCHANGED <<gid, api, systems, onError, components, arrays, objects, chan,
                   cancelled, runPc, wg, obs, errCalls>>

\* The body of GetObject or of the iterator (from offset 0) under the read
\* lock, the deferred RUnlock, and the return; what was found is dropped.
ReadUnlock(s) ==
    /\ proc[s].pc = "rheld"
    /\ objectsMu' = RUnlock(objectsMu, s)
    /\ proc' = [proc EXCEPT ![s].pc = "call"]
    /\ UNCHANGED <<gid, api, systems, onError, components, arrays, objects, chan,
                   cancelled, runPc, wg, obs, errCalls>>

\* The function body returns (it returns no value).
WorkerReturn(s) ==
    /\ proc[s].pc = "call"
    /\ systems[s].Func \in WorkerFuncs
    /\ proc' = [proc EXCEPT ![s] =
                  [@ EXCEPT !.pc = "results", !.results = <<>>, !.calls = 0]]
    /\ UNCHANGED <<gid, api, systems, onError, components, arrays, objects,
                   objectsMu, chan, cancelled, runPc, wg, obs, errCalls>>

LockNext ==
    \/ RunContext
    \/ RunReturn
    \/ \E s \in Sys : RunOnce(s)
    \/ \E s \in Sys : TickNext(s)
    \/ \E s \in Sys : \E op \in WorldOps : WorkerBegin(s, op)
    \/ \E s \in Sys : LockAnnounce(s)
    \/ \E s \in Sys : LockAcquire(s)
    \/ \E s \in Sys : WriteUnlock(s)
    \/ \E s \in Sys : RLockAcquire(s)
    \/ \E s \in Sys : ReadUnlock(s)
    \/ \E s \in Sys : WorkerReturn(s)
    \/ \E s \in Sys : TickResults(s)
    \/ \E s \in Sys : TickEnd(s)
    \/ \E s \in Sys : WgDone(s)

LockSpec == LockInit /\ [][LockNext]_vars

\* Every step of system s's goroutine in such a world.
LockStep(s) ==
    \/ RunOnce(s)
    \/ TickNext(s)
    \/ \E op \in WorldOps : WorkerBegin(s, op)
    \/ LockAnnounce(s)
    \/ LockAcquire(s)
    \/ WriteUnlock(s)
    \/ RLockAcquire(s)
    \/ ReadUnlock(s)
    \/ WorkerReturn(s)
    \/ TickResults(s)
    \/ TickEnd(s)
    \/ WgDone(s)

\* A goroutine that can run does run.
LockFairness ==
    /\ WF_vars(RunReturn)
    /\ \A s \in 1..2 : WF_vars(LockStep(s))

FairLockSpec == LockSpec /\ LockFairness

\* System s holds the lock, for writing or for reading, or has announced
\* itself as its next writer.
Holds(s) ==
    \/ objectsMu.writer = s
    \/ objectsMu.pending = s
    \/ s \in objectsMu.readers

\* System s is inside Lock() or RLock(), waiting.
Blocked(s) == proc[s].pc \in {"wlock", "wdrain", "rlock"}

\* C24 (not held): a goroutine has a hold on the lock only inside a call of
\* AddObject, GetObject, RemoveObject or the iterator: not while tick resolves
\* parameters, not while the system function runs its own code, not after a
\* call has returned.
C24_NotHeld ==
    \A s \in Sys :
        Holds(s) => proc[s].pc \in {"wdrain", "wheld", "rheld"}

\* C24 (no deadlock): while a goroutine waits for the lock, some goroutine can
\* take a step.
C24_NoDeadlock ==
    (\E s \in Sys : Blocked(s)) => ENABLED (\E t \in Sys : LockStep(t))

\* C24 (progress): a goroutine waiting for the lock gets past it, and the run
\* returns.
C24_Progress ==
    /\ \A s \in 1..2 : (s \in Sys /\ Blocked(s)) ~> (s \in Sys /\ ~Blocked(s))
    /\ (runPc = "wait") ~> (runPc = "returned")

\* C24: the collection lock is never held while a system function executes and
\* is released on return from AddObject, GetObject, RemoveObject and each
\* iterator call, so systems calling any of these, in any order and
\* concurrently, never block forever.
C24_LockFreedom == []C24_NotHeld /\ []C24_NoDeadlock /\ C24_Progress

\* C24's case: a system's call of AddObject or RemoveObject waits for the
\* other system's read of the collection to end, while that system's earlier
\* call in the same invocation has already returned.
C24_Witness ==
    \E s, t \in Sys :
        /\ objectsMu.pending = s
        /\ t \in objectsMu.readers
        /\ proc[s].pc = "wdrain"
        /\ proc[t].calls = 2

\* ============================================ objects added during a sweep
MaxSpawnObjs == 3   \* objects of the world before the run
MaxSpawnTicks == 3  \* timestamps of a closing source of the adding system

\* The component bags of such a world: one the adding system matches, one it
\* does not.
SpawnTemplates == { <<Marked>>, <<Position(1)>> }

\* A world of up to MaxSpawnObjs objects and one system running spawner,
\* one-shot or with a closing source.
SpawnInit ==
    /\ systems \in {<<sys>> : sys \in SystemValues(SpawnFuncs, MaxSpawnTicks)}
    /\ onError = TRUE
    /\ \E n \in 0..MaxSpawnObjs :
         /\ components \in [1..n -> SpawnTemplates]
         /\ gid = n
         /\ arrays = SetupWorld(n).arrays
         /\ objects = SetupWorld(n).hdr
    /\ objectsMu = [writer |-> 0, readers |-> {}]
    /\ chan = [s \in Sys |-> Source(systems[s])]
    /\ cancelled = FALSE
    /\ runPc = "idle"
    /\ wg = 0
    /\ proc = [s \in Sys |-> IdleProc]
    /\ obs = [s \in Sys |-> NoObs]
    /\ errCalls = <<>>
    /\ api = NoCalls

\* f.Call of spawner: NewObject(Marked{}), then AddObject from its Lock to its
\* deferred Unlock (no other goroutine runs), and the return.
CallAddObject(s) ==
    /\ proc[s].pc = "call"
    /\ FuncCallsAddObject(systems[s].Func)
    /\ CanLock
    /\ gid' = gid + 1
    /\ components' = (NewEntity(gid) :> <<Marked>>) @@ components
    /\ LET w == AddObjectTo(arrays, objects, NewEntity(gid)) IN
          /\ arrays' = w.arrays
          /\ objects' = w.hdr
    /\ proc' = [proc EXCEPT ![s] = [@ EXCEPT !.pc = "results", !.results = <<>>]]
    /\ UNCHANGED <<api, systems, onError, objectsMu, chan, cancelled, runPc, wg,
                   obs, errCalls>>

SpawnNext ==
    \/ RunContext
    \/ RunReturn
    \/ \E s \in Sys : RunOnce(s)
    \/ \E s \in Sys : SelectTick(s)
    \/ \E s \in Sys : SelectClosed(s)
    \/ \E s \in Sys : TickNext(s)
    \/ \E s \in Sys : CallAddObject(s)
    \/ \E s \in Sys : TickResults(s)
    \/ \E s \in Sys : TickEnd(s)
    \/ \E s \in Sys : WgDone(s)

SpawnSpec == SpawnInit /\ [][SpawnNext]_vars

\* The entities of the objects that were in the world when the sweep under
\* way began: each invocation of the sweep that has made its call has added
\* one object since, and entities are handed out in order.
BeforeSweep(s) ==
    1..(gid - (Len(obs[s].visited) - IF proc[s].pc = "call" THEN 1 ELSE 0))

\* C25: an object a system adds during its own sweep is not visited by that
\* sweep, which ends after one invocation per matching object there was at its
\* start; every object added before a sweep starts is visited by it.
C25_AddedDuringSweep ==
    \A s \in Sys :
        LET f == systems[s].Func
            start == Matching(obs[s].atStart, f)
        IN /\ Range(Invoked(s)) \subseteq BeforeSweep(s)
           /\ Len(Invoked(s)) <= Len(start)
           /\ Invoked(s) = SubSeq(start, 1, Len(Invoked(s)))
           /\ SweepOver(s) =>
                 /\ Invoked(s) = start
                 /\ \A e \in BeforeSweep(s) :
                       Satisfies(components[e], f) => e \in Range(Invoked(s))

\* C25's case: the second sweep of a world that began with two matching
\* objects has ended after four invocations, two of them of the objects the
\* first sweep added.
C25_Witness ==
    \E s \in Sys :
        /\ SweepOver(s)
        /\ Len(obs[s].sweeps) = 2
        /\ Invoked(s) = <<1, 2, 3, 4>>
        /\ gid = 8

====
